---- MODULE Spec2Model ----
(***************************************************************************)
(* A model of alphand/video-automation: file pairing (pipeline.py), the    *)
(* transition catalog (transitions.py), the filter-graph builder and       *)
(* concatenator (video_concat.py), the per-pair renderer (ken_burns.py,    *)
(* audio_utils.py), the parallel render dispatch of run_pipeline           *)
(* (pipeline.py) and the error report of the command line (cli.py).        *)
(*                                                                         *)
(* Strings the code formats or parses are modelled structurally: a file    *)
(* name "<prefix>_<digits>.<ext>" is a record of its three parts, a filter *)
(* stage "[in][in]op=params[out]" is a record of input labels, operation,  *)
(* parameters and output label.  Times are integers in hundredths of a     *)
(* second.                                                                 *)
(***************************************************************************)
EXTENDS Integers, Sequences, FiniteSets, TLC

VARIABLES
    imagesDir,      \* entries of images_dir
    audioDir,       \* entries of audio_dir
    pairResult,     \* outcome of discover_and_pair_files
    exclude,        \* argument of get_random_transition
    transResult,    \* outcome of get_random_transition
    concatArgs,     \* arguments of concatenate_videos_with_transitions
    concatResult,   \* its outcome, with what it did on the way
    audioResult,    \* outcome of a direct build_audio_filters call
    cfg,            \* arguments of run_pipeline
    dirExists,      \* whether images_dir and audio_dir exist
    dirCreated,     \* which of the two run_pipeline has created
    pc,             \* where run_pipeline is: start, collect, pool_exit, done
    task,           \* state of the render task submitted for each pair index
    yielded,        \* indices in the order as_completed has yielded them
    temp_videos,    \* the accumulator of (clip, index)
    error,          \* the exception propagating out of run_pipeline, or "none"
    tempDir,        \* the temp directory: none, exists, removed
    handed,         \* the clip lists handed to the concatenator
    concatInvoked,  \* whether the concat invocation has been issued
    outputWritten,  \* whether the run has written the requested output path
    rendered,       \* the render invocation each finished task has issued
    renderArgs,     \* arguments of create_ken_burns_video
    renderResult    \* its outcome

pairVars   == <<imagesDir, audioDir, pairResult>>
transVars  == <<exclude, transResult>>
concatVars == <<concatArgs, concatResult, audioResult>>
pipeVars   == <<cfg, dirExists, dirCreated, pc, task, yielded, temp_videos, error, tempDir,
                handed, concatInvoked, outputWritten, rendered>>
renderVars == <<renderArgs, renderResult>>
vars == <<pairVars, transVars, concatVars, pipeVars, renderVars>>

(***************************************************************************)
(* Bounds of the model.                                                    *)
(***************************************************************************)
\* pairing indices of the canonical files image_001.jpg .. image_00<MaxIndex>.jpg
MaxIndex == 3
\* exclusion lists hold at most MaxExclude names, or all but at most MaxExclude
MaxExclude == 2
\* concatenate_videos_with_transitions is called with 0..MaxClips clips
MaxClips == 3
\* with more than MaxFreeClips clips, random picks draw from at most two names
MaxFreeClips == 2
\* run_pipeline finds at most MaxPairs pairs
MaxPairs == 3
\* os.cpu_count() of the machine
CpuCount == 2

(***************************************************************************)
(* Generic helpers.                                                        *)
(***************************************************************************)
Range(s) == {s[i] : i \in DOMAIN s}

\* sorted(S) for a finite set of integers
RECURSIVE sorted(_)
sorted(S) ==
    IF S = {} THEN <<>>
    ELSE LET m == CHOOSE x \in S : \A y \in S : x <= y
         IN  <<m>> \o sorted(S \ {m})

\* int("<digits>"): the decimal value of a digit string
RECURSIVE int(_)
int(d) ==
    IF d = <<>> THEN 0
    ELSE 10 * int(SubSeq(d, 1, Len(d) - 1)) + d[Len(d)]

\* str(n): the decimal digits of n >= 0
RECURSIVE Digits(_)
Digits(n) == IF n < 10 THEN <<n>> ELSE Append(Digits(n \div 10), n % 10)

\* f"{index:03d}": decimal digits, zero-padded on the left to width 3
RECURSIVE ZeroPad(_, _)
ZeroPad(d, w) == IF Len(d) >= w THEN d ELSE ZeroPad(<<0>> \o d, w)

Format03d(index) == ZeroPad(Digits(index), 3)

(***************************************************************************)
(* pipeline.py: discover_and_pair_files                                     *)
(***************************************************************************)
\* a directory entry named "<prefix>_<digits>.<ext>"; isFile is is_file()
Entry(p, d, e, f) == [prefix |-> p, digits |-> d, ext |-> e, isFile |-> f]

\* re.IGNORECASE, on the spellings the model uses
Lower(s) ==
    CASE s = "IMAGE" -> "image"
      [] s = "AUDIO" -> "audio"
      [] s = "JPG"   -> "jpg"
      [] s = "PNG"   -> "png"
      [] s = "MP3"   -> "mp3"
      [] s = "WAV"   -> "wav"
      [] OTHER       -> s

ImageExts == {"jpg", "jpeg", "png", "heic"}
AudioExts == {"mp3", "wav", "m4a", "ogg", "aac"}

\* ^image_(\d+)\.(jpg|jpeg|png|heic)$ with re.IGNORECASE
image_pattern(e) ==
    /\ Lower(e.prefix) = "image"
    /\ Len(e.digits) >= 1
    /\ Lower(e.ext) \in ImageExts

\* ^audio_(\d+)\.(mp3|wav|m4a|ogg|aac)$ with re.IGNORECASE
audio_pattern(e) ==
    /\ Lower(e.prefix) = "audio"
    /\ Len(e.digits) >= 1
    /\ Lower(e.ext) \in AudioExts

Matches(role, e) == IF role = "image" THEN image_pattern(e) ELSE audio_pattern(e)

\* the entries of dir the scan loop stores: regular files whose name matches
Matching(dir, role) == {e \in dir : e.isFile /\ Matches(role, e)}

\* The dicts the scan loop can build: key int(match.group(1)), value the
\* path.  iterdir() yields in no fixed order and a later file with the same
\* index overwrites the earlier one, so any file with that index may remain.
ScanDir(dir, role) ==
    LET found == Matching(dir, role)
        keys  == {int(e.digits) : e \in found}
    IN  {m \in [keys -> found] : \A k \in keys : int(m[k].digits) = k}

\* the loop over all_indices
RECURSIVE PairLoop(_, _, _, _, _)
PairLoop(all_indices, images, audio_files, pairs, missing) ==
    IF all_indices = <<>> THEN [pairs |-> pairs, missing |-> missing]
    ELSE LET index == Head(all_indices)
             rest  == Tail(all_indices)
         IN  IF index \in DOMAIN images /\ index \in DOMAIN audio_files
             THEN PairLoop(rest, images, audio_files,
                           Append(pairs, [image |-> images[index],
                                          audio |-> audio_files[index],
                                          index |-> index]),
                           missing)
             ELSE IF index \in DOMAIN images
             THEN PairLoop(rest, images, audio_files, pairs,
                           Append(missing, [role |-> "audio",
                                            digits |-> Format03d(index)]))
             ELSE PairLoop(rest, images, audio_files, pairs,
                           Append(missing, [role |-> "image",
                                            digits |-> Format03d(index)]))

\* list.sort(key=lambda x: x[2]): a stable insertion sort on the index field
RECURSIVE InsertByIndex(_, _)
InsertByIndex(s, x) ==
    IF s = <<>> THEN <<x>>
    ELSE IF s[Len(s)].index <= x.index THEN Append(s, x)
    ELSE Append(InsertByIndex(SubSeq(s, 1, Len(s) - 1), x), s[Len(s)])

\* mutant of SortByIndex: the sort runs with reverse=True
RECURSIVE SortByIndexReversed(_)
SortByIndexReversed(s) ==
    IF s = <<>> THEN <<>>
    ELSE Append(SortByIndexReversed(Tail(s)), Head(s))

RECURSIVE SortByIndex(_)
SortByIndex(s) ==
    IF s = <<>> THEN <<>>
    ELSE InsertByIndex(SortByIndex(SubSeq(s, 1, Len(s) - 1)), s[Len(s)])

\* the two ValueError messages the function raises
NoPairsFoundError    == "ValueError: No matching image/audio pairs found"
IncompletePairsError == "ValueError: Missing matching files for"

Raised(err, missing) == [status |-> err, pairs |-> <<>>, missing |-> missing]

\* mutant of AllIndices: the indices are intersected, not united
AllIndicesIntersected(images, audio_files) == DOMAIN images \cap DOMAIN audio_files

\* the set of indices present on either side
AllIndices(images, audio_files) == DOMAIN images \cup DOMAIN audio_files

\* mutant of MissingCheck: incomplete pairs are skipped silently
MissingCheckSkipping(loop) ==
    [status |-> "ok", pairs |-> SortByIndex(loop.pairs), missing |-> <<>>]

\* the check that raises when some index lacks its counterpart
MissingCheck(loop) ==
    IF loop.missing # <<>>
    THEN Raised(IncompletePairsError, loop.missing)
    ELSE [status |-> "ok", pairs |-> SortByIndex(loop.pairs), missing |-> <<>>]

\* the function from the two dicts on
PairFiles(images, audio_files) ==
    LET all_indices == sorted(AllIndices(images, audio_files))
    IN  IF all_indices = <<>>
        THEN Raised(NoPairsFoundError, <<>>)
        ELSE MissingCheck(PairLoop(all_indices, images, audio_files, <<>>, <<>>))

\* every result the call can have on the two directories
discover_and_pair_files(images_dir, audio_dir) ==
    {PairFiles(images, audio_files) :
        images \in ScanDir(images_dir, "image"),
        audio_files \in ScanDir(audio_dir, "audio")}

(***************************************************************************)
(* transitions.py                                                          *)
(***************************************************************************)
TRANSITION_TYPES ==
    <<"fade", "dissolve", "pixelize", "slideleft", "slideright", "slideup",
      "slidedown", "smoothleft", "smoothright", "smoothup", "smoothdown",
      "fadeblack", "fadewhite", "circleopen", "wipeleft", "wiperight">>

\* the exclude argument: None, or a list (only membership in it is used)
None == [isNone |-> TRUE, items |-> {}]
List(S) == [isNone |-> FALSE, items |-> S]

\* "if exclude:" is false for None and for the empty list
Truthy(x) == ~x.isNone /\ x.items # {}

NotExcluded(ex, t) == t \notin ex.items

\* mutant of Available: the exclusion filter is not applied
AvailableUnfiltered(ex) == TRANSITION_TYPES

\* the list random.choice draws from
Available(ex) ==
    IF Truthy(ex)
    THEN SelectSeq(TRANSITION_TYPES, LAMBDA t : NotExcluded(ex, t))
    ELSE TRANSITION_TYPES

NoTransitionsAvailableError == "ValueError: No transitions available after exclusions"

\* every outcome of get_random_transition(exclude)
get_random_transition(ex) ==
    LET available == Available(ex)
    IN  IF available = <<>>
        THEN {[status |-> NoTransitionsAvailableError, name |-> ""]}
        ELSE {[status |-> "ok", name |-> available[i]] : i \in DOMAIN available}

Catalog == Range(TRANSITION_TYPES)
OkNames(outcomes) == {r.name : r \in {x \in outcomes : x.status = "ok"}}

validate_transition(transition) == transition \in Range(TRANSITION_TYPES)

(***************************************************************************)
(* video_concat.py: filter stages                                          *)
(***************************************************************************)
\* labels: "[i:v]", "[i:a]", "[v<i>]", "[a<i>]", "[silence<i>]", "[final_audio]"
RawV(i)    == [kind |-> "in:v", idx |-> i]
RawA(i)    == [kind |-> "in:a", idx |-> i]
V(i)       == [kind |-> "v", idx |-> i]
A(i)       == [kind |-> "a", idx |-> i]
Silence(i) == [kind |-> "silence", idx |-> i]
FinalAudio == [kind |-> "final_audio", idx |-> 0]
NoLabel    == [kind |-> "", idx |-> 0]

\* one entry of a filter list: "<ins><op>=<parameters><out>"
Stage(ins, op, transition, duration, offset, n, out) ==
    [ins |-> ins, op |-> op, transition |-> transition, duration |-> duration,
     offset |-> offset, n |-> n, out |-> out]

RECURSIVE Join(_)
Join(ss) == IF ss = <<>> THEN <<>> ELSE Head(ss) \o Join(Tail(ss))

InvalidAudioModeError == "ValueError: Invalid audio_transition_mode"

\* mutant of AudioNone: the concat count is one short of the inputs
AudioNoneShortCount(num_videos) ==
    <<Stage([j \in 1..(num_videos) |-> RawA(j - 1)], "concat", "", 0, 0, num_videos - 1, FinalAudio)>>

\* mode 'none': one concat of the raw audio inputs
AudioNone(num_videos) ==
    <<Stage([j \in 1..(num_videos) |-> RawA(j - 1)], "concat", "", 0, 0, num_videos, FinalAudio)>>

\* mutant of AudioGap: a silence follows every clip, the last one included
AudioGapTrailingSilence(num_videos, audio_gap_duration) ==
    LET num_segments   == num_videos + (num_videos - 1)
        SilenceStage(i) == Stage(<<>>, "aevalsrc", "", audio_gap_duration, 0, 0, Silence(i))
        Inputs(i)      == <<RawA(i), Silence(i)>>
        concat_inputs  == Join([j \in 1..(num_videos) |-> Inputs(j - 1)])
    IN  Append([j \in 1..(num_videos - 1) |-> SilenceStage(j - 1)],
               Stage(concat_inputs, "concat", "", 0, 0, num_segments, FinalAudio))

\* mode 'gap': num_videos - 1 silences, then one concat interleaving them
AudioGap(num_videos, audio_gap_duration) ==
    LET num_segments   == num_videos + (num_videos - 1)
        SilenceStage(i) == Stage(<<>>, "aevalsrc", "", audio_gap_duration, 0, 0, Silence(i))
        silence_labels == [j \in 1..(num_videos - 1) |-> Silence(j - 1)]
        Inputs(i)      == IF i < Len(silence_labels)
                          THEN <<RawA(i), silence_labels[i + 1]>>
                          ELSE <<RawA(i)>>
        concat_inputs  == Join([j \in 1..(num_videos) |-> Inputs(j - 1)])
    IN  Append([j \in 1..(num_videos - 1) |-> SilenceStage(j - 1)],
               Stage(concat_inputs, "concat", "", 0, 0, num_segments, FinalAudio))

\* mode 'crossfade': num_videos - 1 chained acrossfade stages and the closing
\* entry "[a<num_videos-2>]final_audio", which names no output label
AudioCrossfade(num_videos, transition_duration) ==
    LET Fade(i) == Stage(<<IF i = 0 THEN RawA(i) ELSE A(i - 1), RawA(i + 1)>>,
                         "acrossfade", "", transition_duration, 0, 0, A(i))
    IN  Append([j \in 1..(num_videos - 1) |-> Fade(j - 1)],
               Stage(<<A(num_videos - 2)>>, "final_audio", "", 0, 0, 0, NoLabel))

\* mutant of build_audio_filters: a mode that is neither 'none' nor
\* 'crossfade' is treated as 'gap'
build_audio_filters_default_gap(num_videos, audio_transition_mode, transition_duration, audio_gap_duration) ==
    IF audio_transition_mode = "none"
    THEN [status |-> "ok", filters |-> AudioNone(num_videos)]
    ELSE IF audio_transition_mode = "crossfade"
    THEN [status |-> "ok", filters |-> AudioCrossfade(num_videos, transition_duration)]
    ELSE [status |-> "ok", filters |-> AudioGap(num_videos, audio_gap_duration)]

build_audio_filters(num_videos, audio_transition_mode, transition_duration, audio_gap_duration) ==
    IF audio_transition_mode = "none"
    THEN [status |-> "ok", filters |-> AudioNone(num_videos)]
    ELSE IF audio_transition_mode = "gap"
    THEN [status |-> "ok", filters |-> AudioGap(num_videos, audio_gap_duration)]
    ELSE IF audio_transition_mode = "crossfade"
    THEN [status |-> "ok", filters |-> AudioCrossfade(num_videos, transition_duration)]
    ELSE [status |-> InvalidAudioModeError, filters |-> <<>>]

(***************************************************************************)
(* video_concat.py: get_video_duration, concatenate_videos_with_transitions *)
(***************************************************************************)
InsufficientClipsError == "ValueError: At least 2 videos required"
ProbeFailed            == "CalledProcessError: ffprobe"
InvalidDuration        == "ValueError: Invalid duration"
ConcatError            == "CalledProcessError: ffmpeg"

\* the 0.05 s buffer of the offset, in hundredths of a second
EPS == 5

\* durations ffprobe reports for a clip, in hundredths of a second
Durations == {200, 350}

\* get_video_duration: a duration, or one of its two failures
get_video_duration_failures == {ProbeFailed, InvalidDuration}

\* a call that raised: how many probes and picks it had made by then
Failed(err, probes, picks) ==
    [status |-> err, probes |-> probes, picks |-> picks, durations |-> <<>>,
     video_filters |-> <<>>, audio_filters |-> <<>>, maps |-> <<>>, invoked |-> FALSE]

\* mutant of VideoLoop: the timeline grows by the whole clip, the overlap of
\* the transition is not taken off
RECURSIVE VideoLoopNoOverlap(_, _, _, _, _, _, _)
VideoLoopNoOverlap(i, n, durations, picks, transition_duration, cumulative_duration, video_filters) ==
    IF i >= n - 1 THEN video_filters
    ELSE LET trans  == picks[i + 1]
             offset == cumulative_duration - transition_duration - EPS
             stage  == Stage(<<IF i = 0 THEN RawV(i) ELSE V(i - 1), RawV(i + 1)>>,
                             "xfade", trans, transition_duration, offset, 0, V(i))
         IN  VideoLoopNoOverlap(i + 1, n, durations, picks, transition_duration,
                                cumulative_duration + durations[i + 2],
                                Append(video_filters, stage))

\* the loop over the boundaries, from boundary i on
RECURSIVE VideoLoop(_, _, _, _, _, _, _)
VideoLoop(i, n, durations, picks, transition_duration, cumulative_duration, video_filters) ==
    IF i >= n - 1 THEN video_filters
    ELSE LET trans  == picks[i + 1]
             offset == cumulative_duration - transition_duration - EPS
             stage  == Stage(<<IF i = 0 THEN RawV(i) ELSE V(i - 1), RawV(i + 1)>>,
                             "xfade", trans, transition_duration, offset, 0, V(i))
         IN  VideoLoop(i + 1, n, durations, picks, transition_duration,
                       cumulative_duration + durations[i + 2] - transition_duration,
                       Append(video_filters, stage))

\* the transition of each boundary: random picks, or the forced type
\* ("" stands for None; both are falsy and give 'fade')
PickSeqs(a, n) ==
    IF a.use_random_transitions
    THEN [1..(n - 1) -> OkNames(get_random_transition(a.excluded_transitions))]
    ELSE {[i \in 1..(n - 1) |->
             IF a.transition_type # "" THEN a.transition_type ELSE "fade"]}

\* the label mapped as audio; the else branch raises
final_audio_label(mode, n) ==
    IF mode = "gap" \/ mode = "none" THEN FinalAudio
    ELSE IF mode = "crossfade" THEN A(n - 2)
    ELSE NoLabel

\* subprocess.run(cmd, check=True): the invocation, and how ffmpeg exits
RunConcat(n, npicks, durations, video_filters, audio_filters, maps) ==
    {[status |-> st, probes |-> n, picks |-> npicks, durations |-> durations,
      video_filters |-> video_filters, audio_filters |-> audio_filters,
      maps |-> maps, invoked |-> TRUE] :
        st \in {"ok", ConcatError}}

\* from the built video graph on
AfterVideo(a, n, npicks, durations, video_filters) ==
    LET af == build_audio_filters(n, a.audio_transition_mode, a.transition_duration,
                                  a.audio_gap_duration)
        fa == final_audio_label(a.audio_transition_mode, n)
    IN  IF af.status # "ok" THEN {Failed(af.status, n, npicks)}
        ELSE IF fa = NoLabel THEN {Failed(InvalidAudioModeError, n, npicks)}
        ELSE RunConcat(n, npicks, durations, video_filters, af.filters, <<V(n - 2), fa>>)

\* from the probed durations on, for the pick sequences the run may draw
AfterProbe(a, n, durations, pickSeqs) ==
    IF a.use_random_transitions
       /\ \E r \in get_random_transition(a.excluded_transitions) : r.status # "ok"
    THEN {Failed(NoTransitionsAvailableError, n, 1)}
    ELSE UNION {AfterVideo(a, n, IF a.use_random_transitions THEN n - 1 ELSE 0,
                           durations,
                           VideoLoop(0, n, durations, picks, a.transition_duration,
                                     durations[1], <<>>)) :
                  picks \in pickSeqs}

\* mutant of TooFewClips: the guard lets a single clip through
TooFewClipsOffByOne(n) == n < 1

\* the clip-count guard of the function
TooFewClips(n) == n < 2

\* every outcome of the call when the probes report one of durationSeqs and
\* the picks are one of pickSeqs
Concatenate(a, durationSeqs, pickSeqs) ==
    LET n == Len(a.video_paths)
    IN  IF TooFewClips(n)
        THEN {Failed(InsufficientClipsError, 0, 0)}
        ELSE {Failed(e, k, 0) : e \in get_video_duration_failures, k \in 1..n}
             \cup UNION {AfterProbe(a, n, durations, pickSeqs) :
                           durations \in durationSeqs}

DurationSeqs(n) == [1..n -> Durations]

\* every outcome of the call
concatenate_videos_with_transitions(a) ==
    Concatenate(a, DurationSeqs(Len(a.video_paths)), PickSeqs(a, Len(a.video_paths)))

\* the path of the clip rendered for a pair: temp_dir / f"pair_{index:03d}.mp4"
PairPath(index) == [name |-> "pair", digits |-> Format03d(index), ext |-> "mp4"]

(***************************************************************************)
(* audio_utils.py: get_audio_duration; ken_burns.py: create_ken_burns_video *)
(*                                                                         *)
(* Zoom levels are in hundredths (1.15 is 115).  The zoom levels of one    *)
(* render are fractions of denominator total_frames; they are held as      *)
(* numerators over that denominator, so that z stands for z / total_frames *)
(* hundredths and the decrement (start_zoom - end_zoom) / total_frames is  *)
(* the integer start_zoom - end_zoom.                                      *)
(***************************************************************************)
\* subprocess.run(cmd, check=True) of the render
RenderError == "CalledProcessError: ffmpeg render"
ZeroDivision == "ZeroDivisionError: float division by zero"

\* durations ffprobe reports for an audio file, in hundredths of a second
AudioDurations == {0, 2, 50, 200}

\* get_audio_duration: the probe fails, or the duration is rejected, or returned
get_audio_duration ==
    {[status |-> ProbeFailed, duration |-> 0]}
    \cup {[status |-> IF d <= 0 THEN InvalidDuration ELSE "ok", duration |-> d] :
            d \in AudioDurations}

\* the keyword defaults of create_ken_burns_video
Defaults == [width |-> 1920, height |-> 1080, fps |-> 30,
             start_zoom |-> 115, end_zoom |-> 100]

\* int(fps * duration), duration in hundredths of a second
total_frames(fps, duration) == (fps * duration) \div 100

\* a zoom level as a numerator over total_frames
OverFrames(zoom, frames) == zoom * frames

\* (start_zoom - end_zoom) / total_frames, as a numerator over total_frames
zoom_increment(start_zoom, end_zoom, frames) == start_zoom - end_zoom

Max(a, b) == IF a >= b THEN a ELSE b

\* mutant of ZoomExpr: frame 1 is not pinned to start_zoom
ZoomExprUnpinned(on, zoom, start_zoom, increment, end_zoom, frames) ==
    Max(zoom - increment, OverFrames(end_zoom, frames))

\* z='if(eq(on,1),{start_zoom},max(zoom-{zoom_increment},{end_zoom}))': the
\* zoom of output frame on, given the zoom of the frame before
ZoomExpr(on, zoom, start_zoom, increment, end_zoom, frames) ==
    IF on = 1 THEN OverFrames(start_zoom, frames)
    ELSE Max(zoom - increment, OverFrames(end_zoom, frames))

\* the zoom levels of output frames on..frames (-vframes caps them at frames)
RECURSIVE ZoomFrom(_, _, _, _, _, _)
ZoomFrom(on, zoom, start_zoom, increment, end_zoom, frames) ==
    IF on > frames THEN <<>>
    ELSE LET z == ZoomExpr(on, zoom, start_zoom, increment, end_zoom, frames)
         IN  <<z>> \o ZoomFrom(on + 1, z, start_zoom, increment, end_zoom, frames)

\* no render invocation was issued
NoInvocation == [width |-> 0, height |-> 0, fps |-> 0]

\* a render that raised before its ffmpeg invocation
RenderFailed(err, duration) ==
    [status |-> err, duration |-> duration, total_frames |-> 0, zoom |-> <<>>,
     invocation |-> NoInvocation, invoked |-> FALSE]

\* every outcome of create_ken_burns_video for arguments a when the probe
\* reports one of probes; the zoom variable of zoompan is 1 before frame 1
Render(a, probes) ==
    UNION {IF p.status # "ok" THEN {RenderFailed(p.status, p.duration)}
           ELSE LET frames == total_frames(a.fps, p.duration)
                IN  IF frames = 0 THEN {RenderFailed(ZeroDivision, p.duration)}
                    ELSE {[status |-> st, duration |-> p.duration,
                           total_frames |-> frames,
                           zoom |-> ZoomFrom(1, OverFrames(100, frames), a.start_zoom,
                                             zoom_increment(a.start_zoom, a.end_zoom, frames),
                                             a.end_zoom, frames),
                           invocation |-> [width |-> a.width, height |-> a.height,
                                           fps |-> a.fps],
                           invoked |-> TRUE] : st \in {"ok", RenderError}} :
           p \in probes}

create_ken_burns_video(a) == Render(a, get_audio_duration)

(***************************************************************************)
(* pipeline.py: run_pipeline                                               *)
(***************************************************************************)
\* process_single_pair: create_ken_burns_video(image_path, audio_path,
\* temp_output), width, height, fps and the zoom levels left to their defaults
process_single_pair == create_ken_burns_video(Defaults)

\* what run_pipeline sees of a render task: how it ended, and the invocation
TaskOutcomes ==
    {[status |-> r.status, invocation |-> r.invocation] : r \in process_single_pair}

RenderFailures == {r.status : r \in TaskOutcomes} \ {"ok"}

\* what mkdir raises when the OS refuses, and what a missing directory would
\* raise if nothing created it
MkdirFailed == "PermissionError: mkdir"
DirNotFound == "FileNotFoundError: directory"

Unfinished == {"queued", "running"}
Finished(st) == st \notin Unfinished

\* max_workers or os.cpu_count(): 0 stands for None
Workers(c) == IF c.max_workers # 0 THEN c.max_workers ELSE CpuCount

\* the queued task the pool starts next: work items are taken in submission
\* order, which is ascending index (the order of pairs)
NextQueued(t) ==
    LET q == {i \in DOMAIN t : t[i] = "queued"}
    IN  CHOOSE i \in q : \A j \in q : i <= j

\* mutant of Reraise: the failure of a pair is logged and skipped
Swallow(e) == "none"

\* "except Exception as e: print(...); raise"
Reraise(e) == e

\* mutant of SortTempVideos: the accumulator is used in completion order
SortTempVideosSkipped(tv) == tv

\* temp_videos.sort(key=lambda x: x[1])
SortTempVideos(tv) == SortByIndex(tv)

\* [tv[0] for tv in temp_videos]
VideoPaths(tv) == [k \in DOMAIN tv |-> tv[k].path]

\* mutant of PoolJoined: the pool is shut down without waiting
PoolJoinedNoWait(t) == TRUE

\* ProcessPoolExecutor.__exit__ is shutdown(wait=True): it returns once every
\* submitted work item has run to its end
PoolJoined(t) == \A i \in DOMAIN t : Finished(t[i])

\* mutant of Cleanup: the finally clause leaves the directory in place
CleanupSkipped(c, td) == td

\* the finally clause: temp_context.__exit__ removes a directory the run created
Cleanup(c, td) == IF ~c.temp_dir_given /\ td = "exists" THEN "removed" ELSE td

\* the arguments run_pipeline passes to the concatenator
ConcatCall(c, video_paths) ==
    [video_paths |-> video_paths, transition_duration |-> c.transition_duration,
     transition_type |-> "", use_random_transitions |-> TRUE,
     excluded_transitions |-> None,
     audio_transition_mode |-> c.audio_transition_mode,
     audio_gap_duration |-> c.audio_gap_duration]

OneOf(S) == IF S = {} THEN {} ELSE {CHOOSE x \in S : TRUE}

\* What run_pipeline sees of a concatenation: how it ended and whether ffmpeg
\* ran.  Neither depends on which durations were probed or which names were
\* picked, so one duration sequence and one pick sequence stand for all
\* (OutcomesAgree states that nothing is lost).
ConcatOutcomes(a) ==
    {[status |-> r.status, invoked |-> r.invoked] :
        r \in Concatenate(a, OneOf(DurationSeqs(Len(a.video_paths))),
                          OneOf(PickSeqs(a, Len(a.video_paths))))}

\* mutant of ensure_directory: a directory that is missing is an error
ensure_directory_must_exist(exists) == IF exists THEN {"ok"} ELSE {DirNotFound}

\* utils.ensure_directory: mkdir(parents=True, exist_ok=True) leaves an
\* existing directory alone and creates a missing one, unless the OS refuses
ensure_directory(exists) == IF exists THEN {"ok"} ELSE {"ok", MkdirFailed}

\* lines 157-195: ensure_directory, discovery, temp directory, submission
Start ==
    /\ pc = "start"
    /\ \E mi \in ensure_directory(dirExists.images),
          ma \in ensure_directory(dirExists.audio) :
          IF mi # "ok"
          THEN /\ error' = mi
               /\ pc' = "done"
               /\ UNCHANGED <<dirExists, dirCreated, pairResult, task, tempDir, rendered>>
          ELSE IF ma # "ok"
          THEN /\ error' = ma
               /\ pc' = "done"
               /\ dirExists' = [dirExists EXCEPT !.images = TRUE]
               /\ dirCreated' = {d \in {"images"} : ~dirExists[d]}
               /\ UNCHANGED <<pairResult, task, tempDir, rendered>>
          ELSE /\ dirExists' = [images |-> TRUE, audio |-> TRUE]
               /\ dirCreated' = {d \in {"images", "audio"} : ~dirExists[d]}
               /\ \E r \in discover_and_pair_files(imagesDir, audioDir) :
                     /\ pairResult' = r
                     /\ IF r.status # "ok"
                        THEN /\ error' = r.status
                             /\ pc' = "done"
                             /\ UNCHANGED <<task, tempDir, rendered>>
                        ELSE /\ tempDir' = "exists"
                             /\ task' = [i \in {r.pairs[k].index : k \in DOMAIN r.pairs} |->
                                            "queued"]
                             /\ rendered' = [i \in {r.pairs[k].index : k \in DOMAIN r.pairs} |->
                                                NoInvocation]
                             /\ pc' = "collect"
                             /\ UNCHANGED error
    /\ UNCHANGED <<imagesDir, audioDir, cfg, yielded, temp_videos, handed,
                   concatInvoked, outputWritten>>

\* a worker takes the next work item
TaskStart ==
    /\ \E i \in DOMAIN task : task[i] = "queued"
    /\ Cardinality({i \in DOMAIN task : task[i] = "running"}) < Workers(cfg)
    /\ task' = [task EXCEPT ![NextQueued(task)] = "running"]
    /\ UNCHANGED <<imagesDir, audioDir, pairResult, cfg, dirExists, dirCreated, pc, yielded,
                   temp_videos, error, tempDir, handed, concatInvoked, outputWritten,
                   rendered>>

\* process_single_pair returns the clip, or raises
TaskFinish ==
    /\ \E i \in DOMAIN task, r \in TaskOutcomes :
          /\ task[i] = "running"
          /\ task' = [task EXCEPT ![i] = r.status]
          /\ rendered' = [rendered EXCEPT ![i] = r.invocation]
    /\ UNCHANGED <<imagesDir, audioDir, pairResult, cfg, dirExists, dirCreated, pc, yielded,
                   temp_videos, error, tempDir, handed, concatInvoked, outputWritten>>

\* one iteration of the loop over as_completed(futures): a finished future
\* not yet yielded is yielded, and future.result() returns or raises
Collect ==
    /\ pc = "collect"
    /\ \E i \in DOMAIN task \ Range(yielded) :
          /\ Finished(task[i])
          /\ yielded' = Append(yielded, i)
          /\ IF task[i] = "ok"
             THEN /\ temp_videos' = Append(temp_videos, [path |-> PairPath(i), index |-> i])
                  /\ UNCHANGED error
             ELSE /\ error' = Reraise(task[i])
                  /\ UNCHANGED temp_videos
          /\ pc' = IF error' # "none" \/ Range(yielded') = DOMAIN task
                   THEN "pool_exit" ELSE "collect"
    /\ UNCHANGED <<imagesDir, audioDir, pairResult, cfg, dirExists, dirCreated, task,
                   tempDir, handed, concatInvoked, outputWritten, rendered>>

\* the with block is left, by the end of the loop or by the exception: the
\* pool is joined; then either the exception goes on through finally to the
\* caller, or the clips are sorted and concatenated and finally runs
PoolExit ==
    /\ pc = "pool_exit"
    /\ PoolJoined(task)
    /\ pc' = "done"
    /\ tempDir' = Cleanup(cfg, tempDir)
    /\ IF error # "none"
       THEN UNCHANGED <<temp_videos, error, handed, concatInvoked, outputWritten>>
       ELSE LET sorted_videos == SortTempVideos(temp_videos)
                video_paths   == VideoPaths(sorted_videos)
            IN  /\ temp_videos' = sorted_videos
                /\ handed' = Append(handed, video_paths)
                /\ \E r \in ConcatOutcomes(ConcatCall(cfg, video_paths)) :
                      /\ concatInvoked' = r.invoked
                      /\ error' = IF r.status = "ok" THEN "none" ELSE r.status
                      /\ outputWritten' \in IF r.status = "ok" THEN {TRUE}
                                            ELSE IF r.invoked THEN BOOLEAN
                                            ELSE {FALSE}
    /\ UNCHANGED <<imagesDir, audioDir, pairResult, cfg, dirExists, dirCreated, task,
                   yielded, rendered>>

(***************************************************************************)
(* The state of a component no call has been made to.                      *)
(***************************************************************************)
Pending == [status |-> "pending", pairs |-> <<>>, missing |-> <<>>]
NotCalled == [status |-> "pending", name |-> ""]
ConcatNotCalled == [status |-> "pending", probes |-> 0, picks |-> 0,
                    durations |-> <<>>, video_filters |-> <<>>, audio_filters |-> <<>>, maps |-> <<>>,
                    invoked |-> FALSE]
AudioNotCalled == [status |-> "pending", filters |-> <<>>]

NoArgs == [video_paths |-> <<>>, transition_duration |-> 100, transition_type |-> "",
           use_random_transitions |-> TRUE, excluded_transitions |-> None,
           audio_transition_mode |-> "gap", audio_gap_duration |-> 50]

IdlePair == imagesDir = {} /\ audioDir = {} /\ pairResult = Pending
IdleTrans == exclude = None /\ transResult = NotCalled
IdleConcat == concatArgs = NoArgs /\ concatResult = ConcatNotCalled /\ audioResult = AudioNotCalled

NoConfig == [width |-> Defaults.width, height |-> Defaults.height, fps |-> Defaults.fps,
             audio_transition_mode |-> "gap", transition_duration |-> 100,
             audio_gap_duration |-> 50, max_workers |-> 0, temp_dir_given |-> FALSE]

\* run_pipeline not yet past its first line
NotStarted ==
    /\ pc = "start"
    /\ dirCreated = {}
    /\ task = <<>>
    /\ yielded = <<>>
    /\ temp_videos = <<>>
    /\ error = "none"
    /\ tempDir = "none"
    /\ handed = <<>>
    /\ concatInvoked = FALSE
    /\ outputWritten = FALSE
    /\ rendered = <<>>

RenderNotCalled == RenderFailed("pending", 0)
IdleRender == renderArgs = Defaults /\ renderResult = RenderNotCalled

IdlePipeline ==
    /\ cfg = NoConfig
    /\ dirExists = [images |-> TRUE, audio |-> TRUE]
    /\ NotStarted

(***************************************************************************)
(* Calls to get_random_transition.                                         *)
(***************************************************************************)
\* names an exclusion list may hold: the catalog and one name outside it
ExcludeNames == Range(TRANSITION_TYPES) \cup {"zoomin"}

SmallSets == {S \in SUBSET ExcludeNames : Cardinality(S) <= MaxExclude}

ExcludeChoices ==
    {None} \cup {List(S) : S \in SmallSets} \cup {List(ExcludeNames \ S) : S \in SmallSets}

InitTrans ==
    /\ exclude \in ExcludeChoices
    /\ transResult = NotCalled
    /\ IdlePair
    /\ IdleConcat
    /\ IdlePipeline
    /\ IdleRender

PickTransition ==
    /\ transResult.status = "pending"
    /\ transResult' \in get_random_transition(exclude)
    /\ UNCHANGED exclude

(***************************************************************************)
(* Calls to concatenate_videos_with_transitions and build_audio_filters.   *)
(***************************************************************************)
\* audio modes: the three of the code and one that is none of them
AudioModes == {"none", "gap", "crossfade", "invalid"}

\* exclusion lists of a concatenation: none, one name, all but two, everything
ConcatExcludes ==
    {None, List({"fade"}), List(Catalog \ {"fade", "wipeleft"}), List(Catalog)}

ArgChoices ==
    [video_paths : {[i \in 1..n |-> PairPath(i)] : n \in 0..MaxClips},
     transition_duration : {100, 50},
     transition_type : {"", "wipeleft", "zoomin"},
     use_random_transitions : BOOLEAN,
     excluded_transitions : ConcatExcludes,
     audio_transition_mode : AudioModes,
     audio_gap_duration : {50}]

\* the calls the concatenation specification makes
Scenario(a) ==
    /\ a.use_random_transitions => a.transition_type = ""
    /\ ~a.use_random_transitions => a.excluded_transitions = None
    /\ (a.use_random_transitions /\ Len(a.video_paths) > MaxFreeClips)
          => Len(Available(a.excluded_transitions)) <= 2

InitConcat ==
    /\ concatArgs \in {a \in ArgChoices : Scenario(a)}
    /\ concatResult = ConcatNotCalled
    /\ audioResult = AudioNotCalled
    /\ IdlePair
    /\ IdleTrans
    /\ IdlePipeline
    /\ IdleRender

CallConcatenate ==
    /\ concatResult.status = "pending"
    /\ concatResult' \in concatenate_videos_with_transitions(concatArgs)
    /\ UNCHANGED <<concatArgs, audioResult>>

CallBuildAudioFilters ==
    /\ audioResult.status = "pending"
    /\ audioResult' = build_audio_filters(Len(concatArgs.video_paths),
                                          concatArgs.audio_transition_mode,
                                          concatArgs.transition_duration,
                                          concatArgs.audio_gap_duration)
    /\ UNCHANGED <<concatArgs, concatResult>>

(***************************************************************************)
(* Directory contents the pairing specification draws from.                *)
(***************************************************************************)
Canonical(role, i) ==
    Entry(role, Format03d(i), IF role = "image" THEN "jpg" ELSE "mp3", TRUE)

\* image_1.PNG / AUDIO_1.wav (index 1 again), photo_1.jpg / sound_1.mp3,
\* image_002.txt / audio_002.txt, and a directory named image_000.jpg
OddEntries(role) ==
    IF role = "image"
    THEN {Entry("image", <<1>>, "PNG", TRUE), Entry("photo", <<1>>, "jpg", TRUE),
          Entry("image", <<0, 0, 2>>, "txt", TRUE),
          Entry("image", <<0, 0, 0>>, "jpg", FALSE)}
    ELSE {Entry("AUDIO", <<1>>, "wav", TRUE), Entry("sound", <<1>>, "mp3", TRUE),
          Entry("audio", <<0, 0, 2>>, "txt", TRUE),
          Entry("audio", <<0, 0, 0>>, "mp3", FALSE)}

EntryUniverse(role) == {Canonical(role, i) : i \in 1..MaxIndex} \cup OddEntries(role)

InitPair ==
    /\ imagesDir \in SUBSET EntryUniverse("image")
    /\ audioDir \in SUBSET EntryUniverse("audio")
    /\ pairResult = Pending
    /\ IdleTrans
    /\ IdleConcat
    /\ IdlePipeline
    /\ IdleRender

Discover ==
    /\ pairResult.status = "pending"
    /\ pairResult' \in discover_and_pair_files(imagesDir, audioDir)
    /\ UNCHANGED <<imagesDir, audioDir>>

NextPair == Discover /\ UNCHANGED <<transVars, concatVars, pipeVars, renderVars>>

SpecPair == InitPair /\ [][NextPair]_vars

NextTrans == PickTransition /\ UNCHANGED <<pairVars, concatVars, pipeVars, renderVars>>

SpecTrans == InitTrans /\ [][NextTrans]_vars

NextConcat ==
    \/ CallConcatenate /\ UNCHANGED <<pairVars, transVars, pipeVars, renderVars>>
    \/ CallBuildAudioFilters /\ UNCHANGED <<pairVars, transVars, pipeVars, renderVars>>

SpecConcat == InitConcat /\ [][NextConcat]_vars

(***************************************************************************)
(* Calls to create_ken_burns_video.                                        *)
(***************************************************************************)
\* output formats a run is configured with: the defaults, and 1280x720 at 24
OutputFormats ==
    {[width |-> Defaults.width, height |-> Defaults.height, fps |-> Defaults.fps],
     [width |-> 1280, height |-> 720, fps |-> 24]}

RenderArgChoices ==
    {[width |-> o.width, height |-> o.height, fps |-> f, start_zoom |-> sz,
      end_zoom |-> ez] :
        o \in OutputFormats, f \in {1, 2, 30}, sz \in {100, 115, 130}, ez \in {100, 115}}

InitRender ==
    /\ renderArgs \in RenderArgChoices
    /\ renderResult = RenderNotCalled
    /\ IdlePair
    /\ IdleTrans
    /\ IdleConcat
    /\ IdlePipeline

CallRender ==
    /\ renderResult.status = "pending"
    /\ renderResult' \in create_ken_burns_video(renderArgs)
    /\ UNCHANGED renderArgs

NextRender == CallRender /\ UNCHANGED <<pairVars, transVars, concatVars, pipeVars>>

SpecRender == InitRender /\ [][NextRender]_vars

(***************************************************************************)
(* Runs of run_pipeline.                                                   *)
(***************************************************************************)
PipelineDir(role) == SUBSET {Canonical(role, i) : i \in 1..MaxPairs}

ConfigChoices ==
    {[width |-> o.width, height |-> o.height, fps |-> o.fps,
      audio_transition_mode |-> mode, transition_duration |-> 100,
      audio_gap_duration |-> 50, max_workers |-> w, temp_dir_given |-> t] :
        o \in OutputFormats, mode \in AudioModes, w \in {0, 1}, t \in BOOLEAN}

\* a directory that does not exist has no entries
Init ==
    /\ imagesDir \in PipelineDir("image")
    /\ audioDir \in PipelineDir("audio")
    /\ pairResult = Pending
    /\ dirExists \in [{"images", "audio"} -> BOOLEAN]
    /\ imagesDir # {} => dirExists.images
    /\ audioDir # {} => dirExists.audio
    /\ cfg \in ConfigChoices
    /\ NotStarted
    /\ IdleTrans
    /\ IdleConcat
    /\ IdleRender

Next ==
    \/ Start /\ UNCHANGED <<transVars, concatVars, renderVars>>
    \/ TaskStart /\ UNCHANGED <<transVars, concatVars, renderVars>>
    \/ TaskFinish /\ UNCHANGED <<transVars, concatVars, renderVars>>
    \/ Collect /\ UNCHANGED <<transVars, concatVars, renderVars>>
    \/ PoolExit /\ UNCHANGED <<transVars, concatVars, renderVars>>

Spec == Init /\ [][Next]_vars

(***************************************************************************)
(* Claims about run_pipeline (Spec).                                       *)
(***************************************************************************)
PairIndices == {pairResult.pairs[k].index : k \in DOMAIN pairResult.pairs}
SomeTaskFailed == \E i \in DOMAIN task : task[i] \in RenderFailures
\* the exception of a failed task is propagating (the concatenator, which
\* can raise the same invalid-duration error, has not been called)
FailureObserved == error \in RenderFailures /\ handed = <<>>

\* C1: whatever the completion order, the clip list handed to the
\* concatenator holds exactly one clip per pair, ascending by pair index, and
\* it is handed over only when every task has succeeded.
C1_ClipsSortedByIndex ==
    \A h \in DOMAIN handed :
        /\ handed[h] = [k \in 1..Cardinality(PairIndices) |->
                          PairPath(sorted(PairIndices)[k])]
        /\ \A i \in DOMAIN task : task[i] = "ok"

\* three clips handed over after the tasks completed in the order 3, 1, 2
C1_Witness ==
    /\ Len(handed) = 1
    /\ Len(handed[1]) = 3
    /\ yielded = <<3, 1, 2>>

\* C2: once a render task has failed the concat invocation is never issued,
\* no clip list is handed to the concatenator, the run writes nothing to the
\* output path, and it ends in that kind of failure with the collected
\* results unused.
C2_FailureAbortsBatch ==
    SomeTaskFailed =>
        /\ handed = <<>>
        /\ ~concatInvoked
        /\ ~outputWritten
        /\ pc = "done" => FailureObserved

\* the run has ended on a failed task after two results had been collected
C2_Witness ==
    /\ pc = "done"
    /\ FailureObserved
    /\ Len(temp_videos) = 2
    /\ handed = <<>>

\* C3 as stated: once the first failed task has been observed, the failure
\* propagates to the caller of run_pipeline without waiting for the
\* remaining render tasks: the step that carries it out is enabled even
\* while tasks are still queued or running.
C3_AsStated ==
    (pc = "pool_exit" /\ FailureObserved) => ENABLED PoolExit

\* C3 (amended): once the first failed task has been observed no further
\* result is collected (exactly one failure has been yielded, and it was
\* yielded last); the remaining tasks are not cancelled; and the failure
\* reaches the caller of run_pipeline only when every submitted render task
\* has finished.
C3_FailureWaitsForPool ==
    FailureObserved =>
        /\ pc \in {"pool_exit", "done"}
        /\ yielded # <<>>
        /\ task[yielded[Len(yielded)]] = error
        /\ \A k \in 1..(Len(yielded) - 1) : task[yielded[k]] = "ok"
        /\ Len(temp_videos) = Len(yielded) - 1
        /\ pc = "done" => \A i \in DOMAIN task : Finished(task[i])

\* the failure has reached the caller, and a task that was still unfinished
\* when it was observed has since completed, its result never collected
C3_Witness ==
    /\ pc = "done"
    /\ FailureObserved
    /\ \E i \in DOMAIN task : task[i] = "ok" /\ i \notin Range(yielded)

(***************************************************************************)
(* Claims about discover_and_pair_files (SpecPair).                        *)
(***************************************************************************)
ImageIndices == {int(e.digits) : e \in Matching(imagesDir, "image")}
AudioIndices == {int(e.digits) : e \in Matching(audioDir, "audio")}
OneSided == (ImageIndices \ AudioIndices) \cup (AudioIndices \ ImageIndices)
Returned == pairResult.status # "pending"

StrictlyAscending(s) == \A i, j \in DOMAIN s : i < j => s[i] < s[j]
IndexSeq(pairs) == [k \in DOMAIN pairs |-> pairs[k].index]

\* C4: when the index sets of the matching image files and of the matching
\* audio files are equal and have K >= 1 elements, the call returns exactly K
\* triples, strictly ascending by index, and each triple's image and audio
\* are files of the two directories whose names carry the triple's index.
C4_FullyMatchedPairs ==
    (Returned /\ ImageIndices = AudioIndices /\ ImageIndices # {}) =>
        /\ pairResult.status = "ok"
        /\ Len(pairResult.pairs) = Cardinality(ImageIndices)
        /\ StrictlyAscending(IndexSeq(pairResult.pairs))
        /\ \A k \in DOMAIN pairResult.pairs :
              LET p == pairResult.pairs[k]
              IN  /\ p.image \in imagesDir /\ p.image.isFile /\ image_pattern(p.image)
                  /\ p.audio \in audioDir /\ p.audio.isFile /\ audio_pattern(p.audio)
                  /\ int(p.image.digits) = p.index
                  /\ int(p.audio.digits) = p.index

\* three pairs returned from directories that also hold a second file of
\* index 1 and files that match no template
C4_Witness ==
    /\ pairResult.status = "ok"
    /\ Len(pairResult.pairs) = 3
    /\ Entry("image", <<1>>, "PNG", TRUE) \in imagesDir
    /\ Entry("sound", <<1>>, "mp3", TRUE) \in audioDir

MissingName(role, i) == [role |-> role, digits |-> Format03d(i)]

\* C5: whenever some index is present on exactly one side the call fails
\* with IncompletePairsError and returns no pairs, and the error lists every
\* such index exactly once, ascending, under the name of the side that is
\* missing (audio_<index> when only the image exists, image_<index> when
\* only the audio exists).
C5_StrictPairing ==
    (Returned /\ OneSided # {}) =>
        /\ pairResult.status = IncompletePairsError
        /\ pairResult.pairs = <<>>
        /\ Len(pairResult.missing) = Cardinality(OneSided)
        /\ StrictlyAscending([k \in DOMAIN pairResult.missing |->
                                 int(pairResult.missing[k].digits)])
        /\ Range(pairResult.missing) =
              {MissingName("audio", i) : i \in ImageIndices \ AudioIndices}
              \cup {MissingName("image", i) : i \in AudioIndices \ ImageIndices}

\* some complete pairs exist, and both kinds of missing counterpart
C5_Witness ==
    /\ pairResult.status = IncompletePairsError
    /\ ImageIndices \cap AudioIndices # {}
    /\ ImageIndices \ AudioIndices # {}
    /\ AudioIndices \ ImageIndices # {}

\* C6: the call fails with NoPairsFoundError exactly when no file of either
\* directory matches its template (the union of indices is empty), and then
\* no missing counterpart has been accumulated.
C6_NoPairsFound ==
    Returned =>
        /\ (pairResult.status = NoPairsFoundError)
              <=> (Matching(imagesDir, "image") = {} /\ Matching(audioDir, "audio") = {})
        /\ (pairResult.status = NoPairsFoundError) => pairResult.missing = <<>>

\* both directories hold files, none of which matches (photo_1.jpg, sound_1.mp3)
C6_Witness ==
    /\ pairResult.status = NoPairsFoundError
    /\ Entry("photo", <<1>>, "jpg", TRUE) \in imagesDir
    /\ Entry("sound", <<1>>, "mp3", TRUE) \in audioDir

(***************************************************************************)
(* Claims about get_random_transition (SpecTrans).                         *)
(***************************************************************************)
\* C7: the names get_random_transition(exclude) can return are exactly the
\* catalog minus exclude, the call fails with NoTransitionsAvailableError
\* exactly when exclude covers the whole catalog, and a call that has
\* returned has returned a catalog name outside exclude.
C7_PickWithinCatalogMinusExclude ==
    /\ OkNames(get_random_transition(exclude)) = Catalog \ exclude.items
    /\ (\E r \in get_random_transition(exclude) : r.status = NoTransitionsAvailableError)
          <=> Catalog \subseteq exclude.items
    /\ transResult.status = "ok" => transResult.name \in Catalog \ exclude.items
    /\ transResult.status = NoTransitionsAvailableError => Catalog \subseteq exclude.items

\* a name returned although all but two catalog names are excluded
C7_Witness ==
    /\ transResult.status = "ok"
    /\ Cardinality(Catalog \ exclude.items) = 2
    /\ "zoomin" \in exclude.items

(***************************************************************************)
(* Claims about the concatenator (SpecConcat).                             *)
(***************************************************************************)
NumClips == Len(concatArgs.video_paths)

\* the outcomes run_pipeline is given are those of the full call
OutcomesAgree ==
    ConcatOutcomes(concatArgs) =
        {[status |-> r.status, invoked |-> r.invoked] :
            r \in concatenate_videos_with_transitions(concatArgs)}
ConcatReturned == concatResult.status # "pending"
AudioReturned == audioResult.status # "pending"
ValidModes == {"none", "gap", "crossfade"}

\* C8: called with 0 or 1 clips, the concatenation fails with
\* InsufficientClipsError having probed no clip, picked no transition and
\* issued no concat invocation.
C8_TooFewClipsFailFirst ==
    (ConcatReturned /\ NumClips < 2) =>
        /\ concatResult.status = InsufficientClipsError
        /\ concatResult.probes = 0
        /\ concatResult.picks = 0
        /\ ~concatResult.invoked

\* one clip, a valid mode and transitions available: only the count is wrong
C8_Witness ==
    /\ ConcatReturned
    /\ NumClips = 1
    /\ concatArgs.audio_transition_mode = "gap"
    /\ concatArgs.excluded_transitions = None
    /\ concatResult.status = InsufficientClipsError

\* C9 as stated: for a mode outside {none, gap, crossfade}
\* build_audio_filters fails with InvalidAudioModeError and returns no
\* stages, and a concatenation requested with such a mode ends in that error
\* without the concat invocation being issued.
C9_AsStated ==
    concatArgs.audio_transition_mode \notin ValidModes =>
        /\ AudioReturned =>
              audioResult.status = InvalidAudioModeError /\ audioResult.filters = <<>>
        /\ ConcatReturned =>
              concatResult.status = InvalidAudioModeError /\ ~concatResult.invoked

EarlierErrors ==
    {InsufficientClipsError, ProbeFailed, InvalidDuration, NoTransitionsAvailableError}

\* C9 (amended): for a mode outside {none, gap, crossfade}
\* build_audio_filters fails with InvalidAudioModeError and returns no
\* stages; a concatenation requested with such a mode never issues the
\* concat invocation and ends in an error, which is InvalidAudioModeError
\* unless the clip-count check, a probe or a transition pick failed first;
\* and with at least two clips and a transition available
\* InvalidAudioModeError is among its outcomes.
C9_InvalidModeNeverInvokes ==
    concatArgs.audio_transition_mode \notin ValidModes =>
        /\ AudioReturned =>
              audioResult.status = InvalidAudioModeError /\ audioResult.filters = <<>>
        /\ ConcatReturned =>
              /\ ~concatResult.invoked
              /\ concatResult.status \in EarlierErrors \cup {InvalidAudioModeError}
        /\ (NumClips >= 2 /\ (concatArgs.use_random_transitions
                               => Available(concatArgs.excluded_transitions) # <<>>))
              => \E r \in ConcatOutcomes(concatArgs) :
                    r.status = InvalidAudioModeError

\* three clips probed and both transitions picked, then the mode is rejected
C9_Witness ==
    /\ concatArgs.audio_transition_mode = "invalid"
    /\ NumClips = 3
    /\ concatResult.status = InvalidAudioModeError
    /\ concatResult.probes = 3
    /\ concatResult.picks = 2
    /\ audioResult.status = InvalidAudioModeError

\* C10 as stated: for n >= 2, build_audio_filters(n, 'crossfade', d) returns
\* exactly n-1 stages, each an acrossfade of duration d; stage 0 consumes raw
\* audio 0 and 1, stage i > 0 consumes the output of stage i-1 and raw audio
\* i+1; the output label of the last stage is the label the concatenator maps.
C10_AsStated ==
    (AudioReturned /\ concatArgs.audio_transition_mode = "crossfade" /\ NumClips >= 2) =>
        LET f == audioResult.filters
        IN  /\ Len(f) = NumClips - 1
            /\ \A k \in DOMAIN f :
                  /\ f[k].op = "acrossfade"
                  /\ f[k].duration = concatArgs.transition_duration
                  /\ f[k].ins = <<IF k = 1 THEN RawA(0) ELSE f[k - 1].out, RawA(k)>>
            /\ f[Len(f)].out = final_audio_label("crossfade", NumClips)

\* how often a label occurs among the inputs of a stage
Uses(stage, label) == Cardinality({p \in DOMAIN stage.ins : stage.ins[p] = label})

\* C11: for n >= 2, build_audio_filters(n, 'gap', g) returns exactly n
\* stages: n-1 silence generators of duration g with pairwise distinct
\* output labels, then one concat of 2n-1 segments whose inputs are audio 0,
\* silence 0, audio 1, silence 1, ..., audio n-1, every silence label and
\* every raw audio input being consumed exactly once.
C11_GapStages ==
    (AudioReturned /\ concatArgs.audio_transition_mode = "gap" /\ NumClips >= 2) =>
        LET f == audioResult.filters
            n == NumClips
        IN  /\ audioResult.status = "ok"
            /\ Len(f) = n
            /\ \A k \in 1..(n - 1) :
                  /\ f[k].op = "aevalsrc"
                  /\ f[k].ins = <<>>
                  /\ f[k].duration = concatArgs.audio_gap_duration
                  /\ \A j \in 1..(n - 1) : j # k => f[j].out # f[k].out
                  /\ Uses(f[n], f[k].out) = 1
            /\ f[n].op = "concat"
            /\ f[n].n = 2 * n - 1
            /\ f[n].out = FinalAudio
            /\ f[n].ins = [p \in 1..(2 * n - 1) |->
                             IF p % 2 = 1 THEN RawA((p - 1) \div 2) ELSE f[p \div 2].out]
            /\ \A i \in 0..(n - 1) : Uses(f[n], RawA(i)) = 1

\* the gap stages of three clips: two silences and the concat of five
C11_Witness ==
    /\ AudioReturned
    /\ concatArgs.audio_transition_mode = "gap"
    /\ NumClips = 3
    /\ Len(audioResult.filters) = 3
    /\ audioResult.filters[3].n = 5

\* C12: for n >= 1, build_audio_filters(n, 'none') returns exactly one
\* stage, a concat whose inputs are the raw audio inputs 0..n-1 in ascending
\* order, each once, whose segment count is n and whose output is the final
\* audio label.
C12_NoneSingleConcat ==
    (AudioReturned /\ concatArgs.audio_transition_mode = "none" /\ NumClips >= 1) =>
        LET f == audioResult.filters
        IN  /\ audioResult.status = "ok"
            /\ Len(f) = 1
            /\ f[1].op = "concat"
            /\ f[1].ins = [p \in 1..NumClips |-> RawA(p - 1)]
            /\ \A i \in 0..(NumClips - 1) : Uses(f[1], RawA(i)) = 1
            /\ f[1].n = NumClips
            /\ f[1].out = FinalAudio

\* the single concat of one clip, and of three
C12_Witness ==
    /\ AudioReturned
    /\ concatArgs.audio_transition_mode = "none"
    /\ NumClips = 3
    /\ Len(audioResult.filters) = 1
    /\ Len(audioResult.filters[1].ins) = 3

\* the filter graph of a call that got as far as the concat invocation
Graph == concatResult.video_filters \o concatResult.audio_filters

IsRawInput(label, n) == label.kind \in {"in:v", "in:a"} /\ label.idx \in 0..(n - 1)

\* the places of a graph where a label is consumed
Consumers(g, label) ==
    {<<k, p>> \in (DOMAIN g) \X (1..(2 * MaxClips + 1)) :
        p \in DOMAIN g[k].ins /\ g[k].ins[p] = label}

WellFormedGraph(g, maps, n) ==
    /\ \A k \in DOMAIN g :
          /\ \A p \in DOMAIN g[k].ins :
                \/ IsRawInput(g[k].ins[p], n)
                \/ \E j \in 1..(k - 1) : g[j].out = g[k].ins[p]
          /\ g[k].out # NoLabel
          /\ \A j \in DOMAIN g : j # k => g[j].out # g[k].out
          /\ Cardinality(Consumers(g, g[k].out)) <= 1
          /\ Consumers(g, g[k].out) = {} <=> g[k].out \in Range(maps)
    /\ Len(maps) = 2
    /\ maps[1] # maps[2]
    /\ \A m \in DOMAIN maps : \E k \in DOMAIN g : g[k].out = maps[m]

\* C13 as stated: in the graph the concatenator assembles for N >= 2 clips,
\* under each of the three audio modes, every input label is a raw input
\* index in 0..N-1 or the output of an earlier stage, every stage has an
\* output label, output labels are pairwise distinct and consumed at most
\* once, and the only labels no stage consumes are the two mapped ones.
C13_AsStated ==
    (concatResult.invoked /\ NumClips >= 2) =>
        WellFormedGraph(Graph, concatResult.maps, NumClips)

\* d[1] + ... + d[k]
RECURSIVE SumTo(_, _)
SumTo(d, k) == IF k = 0 THEN 0 ELSE SumTo(d, k - 1) + d[k]

\* C14: for N >= 2 clips with probed durations d[0..N-1] and transition
\* duration T the video graph has exactly N-1 cross-transition stages; the
\* stage of boundary i has offset (d[0] + ... + d[i]) - (i+1)*T - 0.05,
\* consumes the previous stage's output (raw video 0 when i = 0) and raw
\* video i+1; the output of stage N-2 is the mapped video label.
C14_VideoChainOffsets ==
    (concatResult.invoked /\ NumClips >= 2) =>
        LET vf == concatResult.video_filters
            d  == concatResult.durations
            T  == concatArgs.transition_duration
        IN  /\ Len(d) = NumClips
            /\ Len(vf) = NumClips - 1
            /\ \A k \in DOMAIN vf :
                  /\ vf[k].op = "xfade"
                  /\ vf[k].duration = T
                  /\ vf[k].offset = SumTo(d, k) - k * T - EPS
                  /\ vf[k].ins = <<IF k = 1 THEN RawV(0) ELSE vf[k - 1].out, RawV(k)>>
            /\ vf[NumClips - 1].out = concatResult.maps[1]

\* three clips of unequal probed durations: 2.0 s, 3.5 s, 2.0 s, T = 0.5 s
C14_Witness ==
    /\ concatResult.invoked
    /\ NumClips = 3
    /\ concatResult.durations = <<200, 350, 200>>
    /\ concatArgs.transition_duration = 50
    /\ concatResult.video_filters[2].offset = 445

(***************************************************************************)
(* Claims about the renderer (SpecRender).                                 *)
(***************************************************************************)
RenderReturned == renderResult.status # "pending"

\* C15: for start_zoom >= end_zoom and F >= 1 frames, the zoom sequence of
\* the render is start_zoom exactly at frame 1, non-increasing over frames
\* 1..F, and at no frame below end_zoom.
C15_ZoomPinnedMonotoneClamped ==
    (renderResult.invoked /\ renderArgs.start_zoom >= renderArgs.end_zoom) =>
        LET z == renderResult.zoom
            F == renderResult.total_frames
        IN  /\ F >= 1
            /\ Len(z) = F
            /\ z[1] = OverFrames(renderArgs.start_zoom, F)
            /\ \A k \in 1..(F - 1) : z[k + 1] <= z[k]
            /\ \A k \in 1..F : z[k] >= OverFrames(renderArgs.end_zoom, F)

\* 2.0 s at 30 fps: 60 frames from 1.15 down, the zoom strictly decreasing
C15_Witness ==
    /\ renderResult.invoked
    /\ renderResult.total_frames = 60
    /\ renderArgs.start_zoom = 115
    /\ renderArgs.end_zoom = 100
    /\ renderResult.zoom[2] < renderResult.zoom[1]

\* C16 as stated: the zoom of the last emitted frame F = floor(fps * D) is
\* end_zoom (for D = 2.0 s and fps = 30, F = 60 and the zoom of frame 60 is
\* end_zoom).
C16_AsStated ==
    renderResult.invoked =>
        /\ renderResult.total_frames = total_frames(renderArgs.fps, renderResult.duration)
        /\ renderResult.zoom[renderResult.total_frames]
              = OverFrames(renderArgs.end_zoom, renderResult.total_frames)

\* C20 as stated: for every probed duration D > 0 and fps >= 1 the render
\* computes F >= 1 and reaches its invocation, and a render fails only by a
\* probe failure, an invalid duration (D <= 0) or a non-zero exit of the tool.
C20_AsStated ==
    RenderReturned =>
        /\ renderResult.status \in {"ok", ProbeFailed, InvalidDuration, RenderError}
        /\ renderResult.status = InvalidDuration => renderResult.duration <= 0
        /\ (renderResult.status # ProbeFailed /\ renderResult.duration > 0
               /\ renderArgs.fps >= 1)
              => renderResult.invoked /\ renderResult.total_frames >= 1

(***************************************************************************)
(* cli.py: main, and claims about what a run reports (Spec).               *)
(***************************************************************************)
ValueErrors ==
    {NoPairsFoundError, IncompletePairsError, InvalidDuration, InsufficientClipsError,
     InvalidAudioModeError, NoTransitionsAvailableError}
CalledProcessErrors == {ProbeFailed, ConcatError, RenderError}

\* the Python class of an exception of the model
ExceptionType(e) ==
    IF e \in ValueErrors THEN "ValueError"
    ELSE IF e \in CalledProcessErrors THEN "CalledProcessError"
    ELSE IF e = DirNotFound THEN "FileNotFoundError"
    ELSE IF e = MkdirFailed THEN "PermissionError"
    ELSE "ZeroDivisionError"

\* cli.main: the except clause that reports the exception of run_pipeline
main(e) ==
    IF e = "none" THEN "success"
    ELSE IF ExceptionType(e) = "FileNotFoundError" THEN "file_not_found"
    ELSE IF ExceptionType(e) = "ValueError" THEN "validation"
    ELSE IF ExceptionType(e) = "CalledProcessError" THEN "ffmpeg"
    ELSE "unexpected"

\* the run was started with a directory that did not exist
WasMissing ==
    pc = "done" /\ (dirCreated # {} \/ ~dirExists.images \/ ~dirExists.audio)

\* C17 as stated: a run whose images or audio directory does not exist
\* fails with a file-not-found error, reported in that category and not as
\* a validation error.
C17_AsStated ==
    WasMissing => ExceptionType(error) = "FileNotFoundError"
                  /\ main(error) = "file_not_found"

\* C17 (amended): a run whose images or audio directory does not exist never
\* fails with a file-not-found error.  ensure_directory creates the missing
\* directory; unless the creation itself is refused, both directories then
\* exist, discovery runs on the empty directory, and the run fails before
\* any temp directory or render task is set up with a validation error:
\* NoPairsFoundError when the other directory holds no matching file,
\* IncompletePairsError when it does.
C17_MissingDirIsCreated ==
    WasMissing =>
        /\ main(error) # "file_not_found"
        /\ error # MkdirFailed =>
              /\ dirExists = [images |-> TRUE, audio |-> TRUE]
              /\ main(error) = "validation"
              /\ error = IF Matching(imagesDir, "image") = {} /\ Matching(audioDir, "audio") = {}
                         THEN NoPairsFoundError ELSE IncompletePairsError
              /\ tempDir = "none"
              /\ task = <<>>

\* the images directory was missing and the audio directory holds two files
C17_Witness ==
    /\ pc = "done"
    /\ dirCreated = {"images"}
    /\ Cardinality(audioDir) = 2
    /\ error = IncompletePairsError

\* C19 as stated: every render run_pipeline issues uses the width, height
\* and fps the run was configured with, in the size and frame rate of its
\* pan/zoom filter and in the frame count derived from fps.
C19_AsStated ==
    \A i \in DOMAIN rendered :
        rendered[i] # NoInvocation =>
            /\ rendered[i] = [width |-> cfg.width, height |-> cfg.height, fps |-> cfg.fps]
            /\ \A d \in AudioDurations :
                  total_frames(rendered[i].fps, d) = total_frames(cfg.fps, d)

(***************************************************************************)
(* Claims about the transition names of the graph (SpecConcat).            *)
(***************************************************************************)
\* C18 as stated: every transition name written into a cross-transition
\* stage is a catalog name; random picks are outside excluded_transitions;
\* a fixed transition_type that is not in the catalog is rejected by
\* validation, so no graph is built and no concat invocation issued.
C18_AsStated ==
    /\ \A k \in DOMAIN concatResult.video_filters :
          /\ validate_transition(concatResult.video_filters[k].transition)
          /\ concatArgs.use_random_transitions =>
                concatResult.video_filters[k].transition
                    \notin concatArgs.excluded_transitions.items
    /\ (ConcatReturned /\ ~concatArgs.use_random_transitions
          /\ concatArgs.transition_type # ""
          /\ ~validate_transition(concatArgs.transition_type))
          => concatResult.video_filters = <<>> /\ ~concatResult.invoked

(***************************************************************************)
(* Claims about the temp directory of a run (Spec).                        *)
(***************************************************************************)
\* the run has set up a temp directory of its own
OwnTempDir == ~cfg.temp_dir_given /\ tempDir # "none"

\* C21: a temp directory run_pipeline has created itself is removed on
\* every exit path that follows its creation (success, a failed render task,
\* a failed concatenation); it is in place as long as the run is inside the
\* pool block, and it is removed only when every submitted render task has
\* finished.  A directory the caller has given is never removed.
C21_TempDirRemovedAfterTasks ==
    /\ (pc = "done" /\ pairResult.status = "ok" /\ ~cfg.temp_dir_given)
          => tempDir = "removed"
    /\ (OwnTempDir /\ pc # "done") => tempDir = "exists"
    /\ tempDir = "removed" =>
          /\ ~cfg.temp_dir_given
          /\ pc = "done"
          /\ \A i \in DOMAIN task : Finished(task[i])
    /\ tempDir = "none" => task = <<>>

\* the directory is gone after a failed render task, and a task that was
\* still unfinished when the failure was observed had completed by then
C21_Witness ==
    /\ tempDir = "removed"
    /\ FailureObserved
    /\ Cardinality(DOMAIN task) = 3
    /\ \E i \in DOMAIN task : task[i] = "ok" /\ i \notin Range(yielded)

\* the directory is gone after a successful run
C21_SuccessPath == tempDir = "removed" /\ error = "none" /\ outputWritten

\* the directory is gone after a failed concatenation
C21_ConcatFailurePath == tempDir = "removed" /\ error # "none" /\ handed # <<>>

====
